---- MODULE Spec2Model ----
(***************************************************************************)
(* Model of go-vault-demo: the Vault client package (Initialize, GetSecret,*)
(* Encrypt, Decrypt, RenewToken, RenewSecret, Close) and the process that  *)
(* hosts it (init and main of app.go, the request handlers, the signal     *)
(* goroutine, the renewal goroutines).                                     *)
(*                                                                         *)
(* Four specifications:                                                    *)
(*   Spec         the hosting process of app.go with its goroutines;       *)
(*   SpecAuth     a caller that holds a Vault value of any configuration   *)
(*                and calls Initialize and Close in any order (the         *)
(*                goroutines Initialize spawns are recorded, their steps   *)
(*                are those of Spec);                                      *)
(*   SpecGateway  a caller with a complete configuration that also calls   *)
(*                GetSecret, Encrypt and Decrypt;                          *)
(*   SpecLease    the renewals of the token's lease in time.               *)
(***************************************************************************)
EXTENDS Integers, Sequences, FiniteSets, TLC

VARIABLES
    v,          \* the Vault value: Authentication, Mount, Role, Credential, address
    envToken,   \* VAULT_TOKEN of the environment, read by NewClient
    client,     \* package variable client: [set, token]
    initRes,    \* what the last Initialize call did and returned
    pcMain,     \* position of the foreground sequence (init, main) or "api"
    proc,       \* the hosting process: [alive, exit]
    sigState,   \* the signal goroutine of main
    sigSeen,    \* a SIGINT/SIGTERM was delivered while a session token existed
    server,     \* secrets server: [revoked, revokeCalls]
    secret,     \* the Secret GetSecret returned to init
    supPc,      \* per supervisor: position of RenewToken / RenewSecret
    renPc,      \* per supervisor: position of the library renewer goroutine
    renewCh,    \* per supervisor: notifications queued in renewer.RenewCh()
    doneCh,     \* per supervisor: content of renewer.DoneCh()
    okCount,    \* per supervisor: successful answers of the renew endpoint
    renewCalls, \* per supervisor: renew calls issued
    notified,   \* per supervisor: "Successfully renewed" notifications logged
    fatals,     \* per supervisor: terminal failure reports (log.Fatal)
    lateCalls,  \* per supervisor: renew calls issued after its terminal event
    spawned,    \* per supervisor: goroutines started for it so far
    apiCalls,   \* calls an arbitrary caller made, by kind, and the last one
    gw,         \* the last Secret Gateway operation (GetSecret, Encrypt, ...)
    lease       \* SpecLease: the token's lease and the renewal scheduled for it

vars == <<v, envToken, client, initRes, pcMain, proc, sigState, sigSeen, server,
          secret, supPc, renPc, renewCh, doneCh, okCount, renewCalls, notified,
          fatals, lateCalls, spawned, apiCalls, gw, lease>>

-----------------------------------------------------------------------------
(* Bounds *)

\* successful answers the renew endpoint gives one supervisor
MaxRenew == 3
\* capacity of the renewer's notification channel, scaled down
RenewBuffer == 2
\* calls an arbitrary caller makes in SpecAuth
MaxApiCalls == 3
\* longest lease, in seconds, the server gives a token
MaxLease == 60

-----------------------------------------------------------------------------
(* Configuration *)

Methods == {"token", "approle", "kubernetes", "aws-iam", "aws-ec2",
            "gcp-iam", "gcp-gce", "azure-msi"}

MethodNames == Methods \cup {"ldap"}

Fields == {"Token", "RoleID", "SecretID", "ServiceAccount", "Mount", "Role"}

Supervisors == {"token", "secret"}

\* The value a field has when the configuration gives it.
FieldValue(f) == IF f = "Token" THEN "cfgtok" ELSE "set"

\* Vault values: a method name, every field empty or given, an address that
\* url.Parse accepts or not.
Configs ==
    { [Authentication |-> m, AddrOk |-> a,
       Token |-> IF "Token" \in s THEN FieldValue("Token") ELSE "",
       RoleID |-> IF "RoleID" \in s THEN FieldValue("RoleID") ELSE "",
       SecretID |-> IF "SecretID" \in s THEN FieldValue("SecretID") ELSE "",
       ServiceAccount |-> IF "ServiceAccount" \in s THEN FieldValue("ServiceAccount") ELSE "",
       Mount |-> IF "Mount" \in s THEN FieldValue("Mount") ELSE "",
       Role |-> IF "Role" \in s THEN FieldValue("Role") ELSE ""] :
      m \in MethodNames, a \in BOOLEAN, s \in SUBSET Fields }

EnvTokens == {"", "envtok"}

NoConfig == [Authentication |-> "", AddrOk |-> TRUE, Token |-> "", RoleID |-> "",
             SecretID |-> "", ServiceAccount |-> "", Mount |-> "", Role |-> ""]

-----------------------------------------------------------------------------
(* Initialize *)

\* The fields Initialize tests with len(...) == 0 for a method, in the order
\* of the tests.
CheckedFields(m) ==
    CASE m = "approle"    -> <<"RoleID", "SecretID">>
      [] m = "kubernetes" -> <<"Mount", "Role", "ServiceAccount">>
      [] m = "aws-iam"    -> <<"Mount", "Role">>
      [] m = "aws-ec2"    -> <<"Mount">>
      [] m = "gcp-iam"    -> <<"Mount", "Role", "ServiceAccount">>
      [] m = "gcp-gce"    -> <<"Mount">>
      [] m = "azure-msi"  -> <<"Mount", "Role", "ServiceAccount">>
      [] OTHER            -> <<>>

\* The token the "token" case leaves in the client: the one NewClient took
\* from VAULT_TOKEN when there is one (break), else the configured one.
TokenSelectConfigFirst(cfg, env) == IF cfg.Token # "" THEN cfg.Token ELSE env
TokenSelect(cfg, env) == IF env # "" THEN env ELSE cfg.Token

\* The switch's verdict on the configuration, before any call is made.
ConfigCheck(cfg, env) ==
    LET m == cfg.Authentication
        cf == CheckedFields(m)
    IN  IF m \notin Methods THEN "unsupported"
        ELSE IF m = "token"
             THEN IF TokenSelect(cfg, env) = "" THEN "config" ELSE "ok"
             ELSE IF \E i \in 1..Len(cf) : cfg[cf[i]] = "" THEN "config" ELSE "ok"

\* What building the identity proof can meet, per method.
ProvOutcomes(m) ==
    CASE m = "kubernetes" -> {"ok", "ioerr"}
      [] m = "aws-iam"    -> {"ok", "sessionerr", "signerr"}
      [] m = "aws-ec2"    -> {"ok", "sessionerr", "unavailable", "transport", "non2xx", "readerr"}
      [] m = "gcp-iam"    -> {"ok", "clienterr", "transport", "non2xx"}
      [] m = "gcp-gce"    -> {"ok", "unavailable", "transport", "non2xx", "readerr"}
      [] m = "azure-msi"  -> {"ok", "transport", "non2xx", "readerr", "badjson"}
      [] OTHER            -> {"ok"}

LoginOutcomes == {"ok", "err", "nil", "noauth"}

LookupOutcomes == {"renewable", "notrenewable", "err", "nodata"}

\* The proof step of a method: how the case goes on ("login": the login
\* request is sent, "error": return err, "panic") and the calls it made to
\* metadata and cloud identity services.
Prove(m, out) ==
    CASE m = "kubernetes" ->
            [next |-> IF out = "ioerr" THEN "error" ELSE "login", calls |-> <<>>]
      [] m = "aws-iam" ->
            \* session.Must panics; the error of Sign() is not looked at
            IF out = "sessionerr" THEN [next |-> "panic", calls |-> <<>>]
            \* signing fetches the credentials (instance profile or AssumeRole)
            ELSE [next |-> "login", calls |-> <<"cloud">>]
      [] m = "aws-ec2" ->
            IF out = "sessionerr" THEN [next |-> "panic", calls |-> <<>>]
            ELSE IF out = "unavailable" THEN [next |-> "error", calls |-> <<"meta">>]
            \* err of http.Get is overwritten: response is nil, response.Body panics
            ELSE IF out = "transport" THEN [next |-> "panic", calls |-> <<"meta", "meta">>]
            \* neither the status nor the error of ReadAll is looked at
            ELSE [next |-> "login", calls |-> <<"meta", "meta">>]
      [] m = "gcp-iam" ->
            \* err of google.DefaultClient is overwritten: iam.New(nil) gives a nil
            \* service, iamService.Projects panics
            IF out = "clienterr" THEN [next |-> "panic", calls |-> <<>>]
            ELSE IF out \in {"transport", "non2xx"} THEN [next |-> "error", calls |-> <<"cloud">>]
            ELSE [next |-> "login", calls |-> <<"cloud">>]
      [] m = "gcp-gce" ->
            IF out = "unavailable" THEN [next |-> "error", calls |-> <<"meta">>]
            ELSE IF out \in {"transport", "readerr"}
                 THEN [next |-> "error", calls |-> <<"meta", "meta">>]
            \* the status is not looked at
            ELSE [next |-> "login", calls |-> <<"meta", "meta">>]
      [] m = "azure-msi" ->
            IF out = "ok" THEN [next |-> "login", calls |-> <<"meta">>]
            ELSE [next |-> "error", calls |-> <<"meta">>]
      [] OTHER -> [next |-> "login", calls |-> <<>>]

\* The login exchange: err != nil returns it; a nil secret or a secret without
\* an auth block is dereferenced (secret.Auth.Metadata).
LoginStep(out) ==
    CASE out = "ok"  -> "token"
      [] out = "err" -> "error"
      [] OTHER       -> "panic"

\* lookup-self and the decision to start RenewToken.
LookupStepIgnoresErr(out) ==
    CASE out = "nodata"       -> [status |-> "panic", spawn |-> FALSE]
      [] out = "notrenewable" -> [status |-> "ok", spawn |-> FALSE]
      [] OTHER                -> [status |-> "ok", spawn |-> TRUE]
LookupStep(out) ==
    CASE out = "err"          -> [status |-> "error", spawn |-> FALSE]
      [] out = "nodata"       -> [status |-> "panic", spawn |-> FALSE]
      [] out = "renewable"    -> [status |-> "ok", spawn |-> TRUE]
      [] out = "notrenewable" -> [status |-> "ok", spawn |-> FALSE]

NoInit == [status |-> "none", err |-> "none", prov |-> "none", login |-> "none",
           lookup |-> "none", calls |-> <<>>, spawn |-> FALSE, set |-> FALSE,
           token |-> ""]

\* One call of Initialize on cfg, with VAULT_TOKEN env and the answers in:
\* [clientOk, prov, login, lookup]. The result names the answers that were
\* consumed, the calls made in order, the error returned, the client left
\* behind (set, token) and whether RenewToken was started.
Initialize(cfg, env, in) ==
    LET m == cfg.Authentication
        base == [NoInit EXCEPT !.set = TRUE, !.token = env]
        chk == ConfigCheck(cfg, env)
        pr == Prove(m, in.prov)
        lk == LookupStep(in.lookup)
        \* from the lookup on, with the token tok in the client
        Confirm(r, tok) ==
            [r EXCEPT !.token = tok, !.lookup = in.lookup,
                      !.calls = Append(r.calls, "lookup"),
                      !.status = lk.status, !.spawn = lk.spawn,
                      !.err = IF lk.status = "error" THEN "lookup" ELSE "none"]
    IN  IF ~in.clientOk
        THEN \* NewClient returned nil and its error is overwritten
             [NoInit EXCEPT !.status = "panic"]
        ELSE IF ~cfg.AddrOk
        THEN [base EXCEPT !.status = "error", !.err = "address"]
        ELSE IF chk # "ok"
        THEN [base EXCEPT !.status = "error", !.err = chk]
        ELSE IF m = "token"
        THEN Confirm(base, TokenSelect(cfg, env))
        ELSE LET r1 == [base EXCEPT !.prov = IF m = "approle" THEN "none" ELSE in.prov,
                                    !.calls = pr.calls]
             IN  IF pr.next = "panic" THEN [r1 EXCEPT !.status = "panic"]
                 ELSE IF pr.next = "error"
                 THEN [r1 EXCEPT !.status = "error", !.err = "provider"]
                 ELSE LET r2 == [r1 EXCEPT !.login = in.login,
                                           !.calls = Append(r1.calls, "login")]
                      IN  IF LoginStep(in.login) = "panic"
                          THEN [r2 EXCEPT !.status = "panic"]
                          ELSE IF LoginStep(in.login) = "error"
                          THEN [r2 EXCEPT !.status = "error", !.err = "login"]
                          ELSE Confirm(r2, "logintok")

InitInputs(m) ==
    [clientOk : BOOLEAN, prov : ProvOutcomes(m), login : LoginOutcomes,
     lookup : LookupOutcomes]

-----------------------------------------------------------------------------
(* Secret gateway: GetSecret, Encrypt, Decrypt *)

NoSecret == [got |-> FALSE, renewable |-> FALSE, creds |-> FALSE]

\* What client.Logical().Read can give GetSecret: an error, no secret and no
\* error ("nil", the server's answer has no body), or a secret: leased and
\* renewable, not renewable ("static"), or without credentials ("nocreds").
SecretOutcomes == {"err", "nil", "leased", "static", "nocreds"}

\* The answers a request made with the client c can get from the server srv:
\* without a token, or with a revoked one, the server refuses.
Authorized(c, srv) == c.token # "" /\ ~srv.revoked

ReadAnswers(c, srv) == IF Authorized(c, srv) THEN SecretOutcomes ELSE {"err"}

\* GetSecret, lines 481-488, with the answer out of Read: the error is
\* returned with Secret{}; otherwise the pointer Read gave is dereferenced.
GetSecret(c, out) ==
    IF ~c.set THEN [status |-> "panic", rec |-> NoSecret]
    ELSE IF out = "err" THEN [status |-> "error", rec |-> NoSecret]
    ELSE IF out = "nil" THEN [status |-> "panic", rec |-> NoSecret]
    ELSE [status |-> "ok",
          rec |-> [got |-> TRUE, renewable |-> out = "leased",
                   creds |-> out # "nocreds"]]

\* The transform endpoints: one key per path.
Paths == {"transit/k1", "transit/k2"}

\* Base64 texts the callers hand to Encrypt.
Plaintexts == {"", "aGk=", "b3JkZXI="}

\* The ciphertext the server makes of the plaintext p under the key of path.
Cipher(path, p) == "vault:" \o path \o ":" \o p

\* A text that no key decrypts.
Garbage == "garbage"

\* A value of a response's Data map, with its dynamic type.
Str(x) == [type |-> "string", val |-> x]

Num == [type |-> "number", val |-> "7"]

NoResponse == [err |-> FALSE, nil |-> TRUE, data |-> [none |-> Num]]

\* The server's transform of the request data at path: plaintext is
\* encrypted, a ciphertext of this path's key is decrypted, anything else is
\* an error.
Transform(path, data) ==
    IF "plaintext" \in DOMAIN data
    THEN [err |-> FALSE, nil |-> FALSE,
          data |-> [ciphertext |-> Str(Cipher(path, data.plaintext))]]
    ELSE IF \E p \in Plaintexts : data.ciphertext = Cipher(path, p)
    THEN [err |-> FALSE, nil |-> FALSE,
          data |-> [plaintext |->
                      Str(CHOOSE p \in Plaintexts : data.ciphertext = Cipher(path, p))]]
    ELSE [NoResponse EXCEPT !.err = TRUE]

\* How a write can be answered: by the transform ("healthy"), by a transport
\* error, by a refusal, with no body ("nil"), with a body that lacks the
\* expected field ("nofield") or carries it as a number ("nonstring").
WriteModes == {"healthy", "transport", "denied", "nil", "nofield", "nonstring"}

WriteAnswers(c, srv) ==
    IF Authorized(c, srv) THEN WriteModes ELSE {"transport", "denied"}

\* client.Logical().Write(path, data) answered in the given mode.
ServerWrite(path, data, mode) ==
    CASE mode = "healthy" -> Transform(path, data)
      [] mode \in {"transport", "denied"} -> [NoResponse EXCEPT !.err = TRUE]
      [] mode = "nil" -> NoResponse
      [] mode = "nofield" ->
            [err |-> FALSE, nil |-> FALSE, data |-> [other |-> Str("x")]]
      [] mode = "nonstring" ->
            [err |-> FALSE, nil |-> FALSE,
             data |-> IF "plaintext" \in DOMAIN data
                      THEN [ciphertext |-> Num] ELSE [plaintext |-> Num]]

\* secret.Data[field].(string) on the answer resp of Write: the function
\* returns "" with the error; a nil secret, a missing field or a value that
\* is not a string makes the expression panic.
TakeString(resp, field) ==
    IF resp.err THEN [status |-> "error", out |-> ""]
    ELSE IF resp.nil THEN [status |-> "panic", out |-> ""]
    ELSE IF field \notin DOMAIN resp.data THEN [status |-> "panic", out |-> ""]
    ELSE IF resp.data[field].type # "string" THEN [status |-> "panic", out |-> ""]
    ELSE [status |-> "ok", out |-> resp.data[field].val]

\* The field Decrypt reads from the answer, line 582.
DecryptReadsCiphertext == "ciphertext"
DecryptReads == "plaintext"

\* Encrypt, lines 560-571.
Encrypt(c, path, plaintext, mode) ==
    IF ~c.set THEN [status |-> "panic", out |-> ""]
    ELSE TakeString(ServerWrite(path, [plaintext |-> plaintext], mode), "ciphertext")

\* Decrypt, lines 573-584.
Decrypt(c, path, ciphertext, mode) ==
    IF ~c.set THEN [status |-> "panic", out |-> ""]
    ELSE TakeString(ServerWrite(path, [ciphertext |-> ciphertext], mode), DecryptReads)

\* The last gateway operation: what it was called with, how it was answered,
\* what it returned, the client it ran against, and for a Decrypt of the
\* text the preceding Encrypt returned, that Encrypt's path and plaintext.
NoCall == [op |-> "none", path |-> "", input |-> "", mode |-> "none",
           status |-> "none", out |-> "", set |-> FALSE, token |-> "",
           chained |-> FALSE, srcPath |-> "", srcPlain |-> ""]

Call(op, c, path, input, mode, status, out) ==
    [NoCall EXCEPT !.op = op, !.path = path, !.input = input, !.mode = mode,
                   !.status = status, !.out = out, !.set = c.set,
                   !.token = c.token]

-----------------------------------------------------------------------------
(* The hosting process *)

Alive == proc.alive

Exit(how) == [alive |-> FALSE, exit |-> how]

\* What Close does to the server with the answer out of RevokeSelf: it sends
\* the revoke with the client's token and drops the answer.
Revoke(srv, out) ==
    [revoked |-> srv.revoked \/ out = "ok", revokeCalls |-> srv.revokeCalls + 1]

\* Close dereferences the package variable client (client.Token()).
ClosePanics(c) == ~c.set

ZeroCount == [s \in Supervisors |-> 0]

\* No timed lease is followed: pc is the position of the token's supervisor
\* in SpecLease, cur the current lease in seconds, sched the delay after
\* which the next renewal is made, n the renewals answered so far.
NoLease == [pc |-> "none", cur |-> 0, sched |-> 0, n |-> 0]

InitCommon ==
    /\ client = [set |-> FALSE, token |-> ""]
    /\ initRes = NoInit
    /\ proc = [alive |-> TRUE, exit |-> "none"]
    /\ sigState = "none"
    /\ sigSeen = FALSE
    /\ server = [revoked |-> FALSE, revokeCalls |-> 0]
    /\ secret = NoSecret
    /\ supPc = [s \in Supervisors |-> "none"]
    /\ renPc = [s \in Supervisors |-> "none"]
    /\ renewCh = ZeroCount
    /\ doneCh = [s \in Supervisors |-> "empty"]
    /\ okCount = ZeroCount
    /\ renewCalls = ZeroCount
    /\ notified = ZeroCount
    /\ fatals = ZeroCount
    /\ lateCalls = ZeroCount
    /\ spawned = ZeroCount
    /\ apiCalls = [init |-> 0, close |-> 0, gateway |-> 0, last |-> "none"]
    /\ gw = NoCall

\* The configurations the hosting process is run with: every method name,
\* every field given.
AppConfigs == { c \in Configs : c.AddrOk /\ \A f \in Fields : c[f] # "" }

Init ==
    /\ v = NoConfig
    /\ envToken \in EnvTokens
    /\ pcMain = "start"
    /\ InitCommon
    /\ lease = NoLease

supVars == <<supPc, renPc, renewCh, doneCh, okCount, renewCalls, notified,
             fatals, lateCalls>>

apiVars == <<apiCalls, gw, lease>>

\* What the state becomes when Initialize has run with the answers in.
InitializeEffect(in) ==
    LET r == Initialize(v, envToken, in)
    IN  /\ initRes' = r
        /\ client' = [set |-> r.set, token |-> r.token]
        /\ supPc' = IF r.spawn THEN [supPc EXCEPT !["token"] = "spawned"] ELSE supPc
        /\ spawned' = IF r.spawn THEN [spawned EXCEPT !["token"] = @ + 1] ELSE spawned

\* init of app.go, lines 74-80: the configuration is read into vault.
AppReadConfig ==
    /\ Alive /\ pcMain = "start"
    /\ v' \in AppConfigs
    /\ pcMain' = "vaultInit"
    /\ UNCHANGED <<envToken, client, initRes, proc, sigState, sigSeen, server,
                   secret, supVars, spawned, apiVars>>

\* init of app.go, lines 83-87: an error of vault.Init() goes to log.Fatal.
InitErrIgnored(status) == FALSE
InitFatal(status) == status = "error"

\* init of app.go, lines 82-87: vault.Init(), log.Fatal on an error.
AppVaultInit ==
    /\ Alive /\ pcMain = "vaultInit"
    /\ \E in \in InitInputs(v.Authentication) :
          /\ InitializeEffect(in)
          /\ LET r == Initialize(v, envToken, in)
                 dead == r.status = "panic" \/ InitFatal(r.status)
             IN  /\ proc' = IF r.status = "panic" THEN Exit("panic")
                            ELSE IF InitFatal(r.status) THEN Exit("fatal")
                            ELSE proc
                 /\ pcMain' = IF dead THEN "dead" ELSE "getSecret"
    /\ UNCHANGED <<v, envToken, sigState, sigSeen, server, secret, renPc, renewCh,
                   doneCh, okCount, renewCalls, notified, fatals, lateCalls, apiVars>>

\* What init does with the answer of GetSecret: an error is fatal, a nil
\* secret is dereferenced, otherwise RenewSecret is started on the secret,
\* whatever its renewable flag; then the credentials are taken from it.
AttachSecret(out) == out \in {"leased", "static", "nocreds"}

\* init of app.go, lines 89-112.
AppGetSecret ==
    /\ Alive /\ pcMain = "getSecret"
    /\ \E dbRole \in BOOLEAN :
          IF ~dbRole
          THEN /\ proc' = Exit("fatal") /\ pcMain' = "dead"
               /\ UNCHANGED <<secret, supPc, spawned, gw>>
          ELSE \E out \in ReadAnswers(client, server) :
               LET r == GetSecret(client, out)
               IN  /\ gw' = Call("GetSecret", client, "db", "", out, r.status, "")
                   /\ IF r.status # "ok"
                      THEN /\ proc' = Exit(IF r.status = "panic" THEN "panic"
                                           ELSE "fatal")
                           /\ pcMain' = "dead"
                           /\ UNCHANGED <<secret, supPc, spawned>>
                      ELSE /\ secret' = r.rec
                           /\ IF AttachSecret(out)
                              THEN /\ supPc' = [supPc EXCEPT !["secret"] = "spawned"]
                                   /\ spawned' = [spawned EXCEPT !["secret"] = @ + 1]
                              ELSE UNCHANGED <<supPc, spawned>>
                           /\ IF ~r.rec.creds
                              THEN proc' = Exit("panic") /\ pcMain' = "dead"
                              ELSE proc' = proc /\ pcMain' = "connect"
    /\ UNCHANGED <<v, envToken, client, initRes, sigState, sigSeen, server, renPc,
                   renewCh, doneCh, okCount, renewCalls, notified, fatals,
                   lateCalls, apiCalls, lease>>

\* init of app.go, lines 114-120.
AppConnect ==
    /\ Alive /\ pcMain = "connect"
    /\ \E ok \in BOOLEAN :
          IF ok THEN proc' = proc /\ pcMain' = "main"
          ELSE proc' = Exit("fatal") /\ pcMain' = "dead"
    /\ UNCHANGED <<v, envToken, client, initRes, sigState, sigSeen, server,
                   secret, supVars, spawned, apiVars>>

\* main, lines 124-133: the router, then signal.Notify on an unbuffered channel.
MainNotify ==
    /\ Alive /\ pcMain = "main"
    /\ pcMain' = "notified"
    /\ UNCHANGED <<v, envToken, client, initRes, proc, sigState, sigSeen, server,
                   secret, supVars, spawned, apiVars>>

\* main, lines 134-141: the signal goroutine is started, the server listens.
MainServe ==
    /\ Alive /\ pcMain = "notified"
    /\ pcMain' = "serving"
    /\ sigState' = "waiting"
    /\ UNCHANGED <<v, envToken, client, initRes, proc, sigSeen, server, secret,
                   supVars, spawned, apiVars>>

\* main, lines 141-143: ListenAndServe returns an error.
ServeFail ==
    /\ Alive /\ pcMain = "serving"
    /\ proc' = Exit("fatal")
    /\ pcMain' = "dead"
    /\ UNCHANGED <<v, envToken, client, initRes, sigState, sigSeen, server,
                   secret, supVars, spawned, apiVars>>

\* The transform path and the encoded customer name the order handlers use.
OrderPath == "transit/k1"

OrderName == "aGk="

\* Run of a request handler with the outcome status of its gateway call:
\* whatever it is (a result, an error, a panic, which the HTTP server
\* recovers), the request is handled and the process goes on. Of a handler's
\* call the operation and the client it ran against are recorded.
Recovered(status) == proc

\* CreateOrderEndpoint: OrderDAO.Insert encrypts the customer name (lines
\* 689-694).
HandleCreateOrder ==
    /\ Alive /\ pcMain = "serving"
    /\ \E mode \in WriteAnswers(client, server) :
          LET r == Encrypt(client, OrderPath, OrderName, mode)
          IN  /\ gw' = Call("Encrypt", client, OrderPath, OrderName, "",
                            "handled", "")
              /\ proc' = Recovered(r.status)
    /\ UNCHANGED <<v, envToken, client, initRes, pcMain, sigState, sigSeen, server,
                   secret, supVars, spawned, apiCalls, lease>>

\* AllOrdersEndpoint: OrderDAO.FindAll decrypts the customer name of a
\* stored order (lines 646-656).
HandleAllOrders ==
    /\ Alive /\ pcMain = "serving"
    /\ \E mode \in WriteAnswers(client, server) :
          LET c == Cipher(OrderPath, OrderName)
              r == Decrypt(client, OrderPath, c, mode)
          IN  /\ gw' = Call("Decrypt", client, OrderPath, c, "", "handled", "")
              /\ proc' = Recovered(r.status)
    /\ UNCHANGED <<v, envToken, client, initRes, pcMain, sigState, sigSeen, server,
                   secret, supVars, spawned, apiCalls, lease>>

-----------------------------------------------------------------------------
(* Signals *)

\* Where a SIGINT/SIGTERM goes: before signal.Notify the runtime's default
\* ends the process; after it the signal is handed to the goroutine when it
\* is receiving and is dropped otherwise (the channel has no buffer).
SignalRoute(pc, st) ==
    IF pc \notin {"notified", "serving"} THEN "default"
    ELSE IF st = "waiting" THEN "caught" ELSE "dropped"

Signal ==
    /\ Alive
    /\ pcMain # "api"
    /\ ~sigSeen
    /\ sigSeen' = (client.token # "")
    /\ LET to == SignalRoute(pcMain, sigState)
       IN  /\ proc' = IF to = "default" THEN Exit("signal") ELSE proc
           /\ sigState' = IF to = "caught" THEN "caught" ELSE sigState
    /\ UNCHANGED <<v, envToken, client, initRes, pcMain, server, secret, supVars,
                   spawned, apiVars>>

\* The signal goroutine, line 137: vault.Close().
SigClose ==
    /\ Alive /\ sigState = "caught"
    /\ IF ClosePanics(client)
       THEN proc' = Exit("panic") /\ UNCHANGED <<server, sigState, gw>>
       ELSE /\ \E out \in {"ok", "err"} :
                 /\ server' = Revoke(server, out)
                 /\ gw' = Call("Revoke", client, "", "", out, out, "")
            /\ sigState' = "closed"
            /\ proc' = proc
    /\ UNCHANGED <<v, envToken, client, initRes, pcMain, sigSeen, secret, supVars,
                   spawned, apiCalls, lease>>

\* The signal goroutine, line 138: os.Exit(0).
SigExit ==
    /\ Alive /\ sigState = "closed"
    /\ proc' = Exit("shutdown")
    /\ UNCHANGED <<v, envToken, client, initRes, pcMain, sigState, sigSeen, server,
                   secret, supVars, spawned, apiVars>>

-----------------------------------------------------------------------------
(* Lease supervisors: RenewToken, RenewSecret and the renewer they watch *)

\* What the renew endpoint can answer one more call of supervisor s: nothing
\* but an error once the token is revoked; otherwise a renewal ("ok"), a
\* renewal whose remaining lease is within the renewer's grace ("short"), a
\* renewal that is no longer renewable ("norenew"), each while the endpoint
\* still has a success to give, or an error.
RenewAnswers(s) ==
    IF server.revoked THEN {"err"}
    ELSE IF okCount[s] < MaxRenew THEN {"ok", "short", "norenew", "err"}
    ELSE {"err"}

\* A renew call of s is made: counted, and counted as late when s has had
\* its terminal event.
CountCall(s) ==
    /\ renewCalls' = [renewCalls EXCEPT ![s] = @ + 1]
    /\ lateCalls' = IF doneCh[s] # "empty" \/ renPc[s] = "done" \/ supPc[s] = "fatal"
                    THEN [lateCalls EXCEPT ![s] = @ + 1] ELSE lateCalls

\* The supervisor of s takes its failure path: log.Fatal ends the process.
Fatal(s) ==
    /\ supPc' = [supPc EXCEPT ![s] = "fatal"]
    /\ fatals' = [fatals EXCEPT ![s] = @ + 1]
    /\ proc' = Exit("fatal")

\* The notifications logged once RenewToken has made its first renewal, from
\* the n logged before: RenewSelf's answer goes to NewRenewer, nothing is
\* logged for it.
SelfRenewLogged(n) == n + 1
SelfRenewLog(n) == n

\* The client's token once a renew call was answered: RenewToken and
\* RenewSecret read the answer for its accessor or lease and never call
\* SetToken; the renewed token is the same token with a new lease.
TokenAfterRenewalInstalled(tok, answer) == IF answer = "ok" THEN "renewed" ELSE tok
TokenAfterRenewal(tok, answer) == tok

\* RenewToken, lines 490-512: the first renewal is made directly with
\* RenewSelf(0) and is not notified; an error of it, or of NewRenewer on a
\* nil secret, is fatal; otherwise the renewer is started.
RenewTokenStart ==
    /\ Alive /\ supPc["token"] = "spawned"
    /\ CountCall("token")
    /\ \E out \in (IF server.revoked THEN {"err"}
                   ELSE IF okCount["token"] < MaxRenew THEN {"ok", "err", "nil"}
                   ELSE {"err", "nil"}) :
          /\ client' = [client EXCEPT !.token = TokenAfterRenewal(@, out)]
          /\ IF out = "ok"
             THEN /\ okCount' = [okCount EXCEPT !["token"] = @ + 1]
                  /\ notified' = [notified EXCEPT !["token"] = SelfRenewLog(@)]
                  /\ supPc' = [supPc EXCEPT !["token"] = "loop"]
                  /\ renPc' = [renPc EXCEPT !["token"] = "run"]
                  /\ UNCHANGED <<fatals, proc>>
             ELSE /\ Fatal("token")
                  /\ UNCHANGED <<okCount, renPc, notified>>
    /\ UNCHANGED <<v, envToken, initRes, pcMain, sigState, sigSeen, server,
                   secret, renewCh, doneCh, spawned, apiVars>>

\* RenewSecret, lines 529-543: the renewer is made from the secret as it is
\* and started; no renewal is made here.
RenewSecretStart ==
    /\ Alive /\ supPc["secret"] = "spawned"
    /\ supPc' = [supPc EXCEPT !["secret"] = "loop"]
    /\ renPc' = [renPc EXCEPT !["secret"] = "run"]
    /\ UNCHANGED <<v, envToken, client, initRes, pcMain, proc, sigState, sigSeen,
                   server, secret, renewCh, doneCh, okCount, renewCalls, notified,
                   fatals, lateCalls, spawned, apiVars>>

\* Whether the renewer of s was given a renewable secret: RenewToken hands it
\* the answer of RenewSelf, RenewSecret the secret init read.
RenewableInput(s) == IF s = "token" THEN TRUE ELSE secret.renewable

\* The renewer puts a notification in its channel unless the channel is full.
Push(n) == IF n < RenewBuffer THEN n + 1 ELSE n

\* renewer.Renew(), one round: a secret that is not renewable ends it with an
\* error and no call; otherwise one renew call, whose success is pushed to
\* RenewCh and whose failure, or last success, puts the result in DoneCh.
RenewerStep(s) ==
    /\ Alive /\ renPc[s] = "run"
    /\ IF ~RenewableInput(s)
       THEN /\ doneCh' = [doneCh EXCEPT ![s] = "err"]
            /\ renPc' = [renPc EXCEPT ![s] = "done"]
            /\ UNCHANGED <<renewCh, okCount, renewCalls, lateCalls, client>>
       ELSE /\ CountCall(s)
            /\ \E out \in RenewAnswers(s) :
                  /\ client' = [client EXCEPT !.token = TokenAfterRenewal(@, out)]
                  /\ okCount' = IF out = "err" THEN okCount
                                ELSE [okCount EXCEPT ![s] = @ + 1]
                  /\ renewCh' = IF out = "err" THEN renewCh
                                ELSE [renewCh EXCEPT ![s] = Push(@)]
                  /\ doneCh' = IF out = "ok" THEN doneCh
                               ELSE [doneCh EXCEPT ![s] =
                                        IF out = "short" THEN "nil" ELSE "err"]
                  /\ renPc' = IF out = "ok" THEN renPc
                              ELSE [renPc EXCEPT ![s] = "done"]
    /\ UNCHANGED <<v, envToken, initRes, pcMain, proc, sigState, sigSeen,
                   server, secret, supPc, notified, fatals, spawned, apiVars>>

\* The select of the loop, case renewal := <-renewer.RenewCh(): logged.
SupRenewal(s) ==
    /\ Alive /\ supPc[s] = "loop" /\ renewCh[s] > 0
    /\ renewCh' = [renewCh EXCEPT ![s] = @ - 1]
    /\ notified' = [notified EXCEPT ![s] = @ + 1]
    /\ UNCHANGED <<v, envToken, client, initRes, pcMain, proc, sigState, sigSeen,
                   server, secret, supPc, renPc, doneCh, okCount, renewCalls,
                   fatals, lateCalls, spawned, apiVars>>

\* What the loop does with what it received from DoneCh: log.Fatal(err) for
\* an error, log.Fatalf("Cannot renew ...") for nil.
SupDoneReturnsOnNil(res) == IF res = "nil" THEN "returned" ELSE "fatal"
SupDoneOutcome(res) == "fatal"

\* The select of the loop, case err := <-renewer.DoneCh().
SupDone(s) ==
    /\ Alive /\ supPc[s] = "loop" /\ doneCh[s] # "empty"
    /\ doneCh' = [doneCh EXCEPT ![s] = "empty"]
    /\ IF SupDoneOutcome(doneCh[s]) = "fatal"
       THEN Fatal(s)
       ELSE /\ supPc' = [supPc EXCEPT ![s] = "returned"]
            /\ UNCHANGED <<fatals, proc>>
    /\ UNCHANGED <<v, envToken, client, initRes, pcMain, sigState, sigSeen, server,
                   secret, renPc, renewCh, okCount, renewCalls, notified,
                   lateCalls, spawned, apiVars>>

-----------------------------------------------------------------------------
(* A caller of the exported methods *)

ApiBudget == apiCalls.init + apiCalls.close + apiCalls.gateway < MaxApiCalls

\* v.Initialize() called by any caller.
ApiInitialize ==
    /\ Alive /\ pcMain = "api" /\ ApiBudget
    /\ \E in \in InitInputs(v.Authentication) :
          /\ InitializeEffect(in)
          /\ proc' = IF Initialize(v, envToken, in).status = "panic"
                     THEN Exit("panic") ELSE proc
    /\ apiCalls' = [apiCalls EXCEPT !.init = @ + 1, !.last = "Initialize"]
    /\ UNCHANGED <<v, envToken, pcMain, sigState, sigSeen, server, secret, renPc,
                   renewCh, doneCh, okCount, renewCalls, notified, fatals,
                   lateCalls, gw, lease>>

\* v.Close() called by any caller.
ApiClose ==
    /\ Alive /\ pcMain = "api" /\ ApiBudget
    /\ apiCalls' = [apiCalls EXCEPT !.close = @ + 1, !.last = "Close"]
    /\ IF ClosePanics(client)
       THEN proc' = Exit("panic") /\ UNCHANGED <<server, gw>>
       ELSE /\ \E out \in {"ok", "err"} :
                 /\ server' = Revoke(server, out)
                 /\ gw' = Call("Revoke", client, "", "", out, out, "")
            /\ proc' = proc
    /\ UNCHANGED <<v, envToken, client, initRes, pcMain, sigState, sigSeen, secret,
                   supVars, spawned, lease>>

\* v.GetSecret(path) called by any caller.
ApiGetSecret ==
    /\ Alive /\ pcMain = "api" /\ ApiBudget
    /\ apiCalls' = [apiCalls EXCEPT !.gateway = @ + 1, !.last = "GetSecret"]
    /\ \E out \in ReadAnswers(client, server) :
          LET r == GetSecret(client, out)
          IN  /\ gw' = Call("GetSecret", client, "db", "", out, r.status, "")
              /\ secret' = IF r.status = "ok" THEN r.rec ELSE secret
              /\ proc' = IF r.status = "panic" THEN Exit("panic") ELSE proc
    /\ UNCHANGED <<v, envToken, client, initRes, pcMain, sigState, sigSeen, server,
                   supVars, spawned, lease>>

\* v.Encrypt(path, plaintext) called by any caller.
ApiEncrypt ==
    /\ Alive /\ pcMain = "api" /\ ApiBudget
    /\ apiCalls' = [apiCalls EXCEPT !.gateway = @ + 1, !.last = "Encrypt"]
    /\ \E path \in Paths, p \in Plaintexts, mode \in WriteAnswers(client, server) :
          LET r == Encrypt(client, path, p, mode)
          IN  /\ gw' = Call("Encrypt", client, path, p, mode, r.status, r.out)
              /\ proc' = IF r.status = "panic" THEN Exit("panic") ELSE proc
    /\ UNCHANGED <<v, envToken, client, initRes, pcMain, sigState, sigSeen, server,
                   secret, supVars, spawned, lease>>

\* The texts a caller hands to Decrypt: what the Encrypt before returned, or
\* a text no key decrypts.
DecryptInputs ==
    {Garbage} \cup (IF gw.op = "Encrypt" /\ gw.status = "ok" THEN {gw.out} ELSE {})

\* v.Decrypt(path, ciphertext) called by any caller.
ApiDecrypt ==
    /\ Alive /\ pcMain = "api" /\ ApiBudget
    /\ apiCalls' = [apiCalls EXCEPT !.gateway = @ + 1, !.last = "Decrypt"]
    /\ \E path \in Paths, c \in DecryptInputs, mode \in WriteAnswers(client, server) :
          LET r == Decrypt(client, path, c, mode)
              chained == gw.op = "Encrypt" /\ gw.status = "ok" /\ c = gw.out
          IN  /\ gw' = [Call("Decrypt", client, path, c, mode, r.status, r.out)
                          EXCEPT !.chained = chained,
                                 !.srcPath = IF chained THEN gw.path ELSE "",
                                 !.srcPlain = IF chained THEN gw.input ELSE ""]
              /\ proc' = IF r.status = "panic" THEN Exit("panic") ELSE proc
    /\ UNCHANGED <<v, envToken, client, initRes, pcMain, sigState, sigSeen, server,
                   secret, supVars, spawned, lease>>

\* The same caller, holding a complete configuration, with the gateway
\* operations at hand.
InitGateway ==
    /\ v \in AppConfigs
    /\ envToken \in EnvTokens
    /\ pcMain = "api"
    /\ InitCommon
    /\ lease = NoLease

InitAuth ==
    /\ v \in Configs
    /\ envToken \in EnvTokens
    /\ pcMain = "api"
    /\ InitCommon
    /\ lease = NoLease

-----------------------------------------------------------------------------
(* The renewal schedule of the token's lease *)

\* The renewer's grace period: RenewerInput leaves Grace unset (line 500), so
\* the library's default of 15 seconds applies.
Grace == 15

\* The leases the server gives a renewable token, in seconds.
Leases == 1..MaxLease

\* The delay after which RenewToken makes the first renewal of a token that
\* was issued with the lease l: none, RenewSelf(0) is its first statement.
FirstRenewAtExpiry(l) == l
FirstRenewDelay(l) == 0

\* The delays the renewer can sleep before the next renewal of a lease of l
\* seconds: a half or a third of the lease, scaled by a random factor between
\* one half and one.
SleepChoices(l) == { d \in 0..l : l <= 6 * d /\ 2 * d <= l }

\* Initialize has started RenewToken for a token issued with a lease.
InitLease ==
    /\ v \in { c \in AppConfigs : c.Authentication = "approle" }
    /\ envToken = ""
    /\ pcMain = "lease"
    /\ InitCommon
    /\ \E l \in Leases : lease = [pc |-> "issued", cur |-> l, sched |-> 0, n |-> 0]

leaseFrame == <<v, envToken, client, initRes, pcMain, proc, sigState, sigSeen,
                server, secret, supVars, spawned, apiCalls, gw>>

\* RenewToken begins, line 492: the first renewal is due.
LeaseStart ==
    /\ pcMain = "lease" /\ lease.pc = "issued"
    /\ lease' = [lease EXCEPT !.pc = "armed", !.sched = FirstRenewDelay(lease.cur)]
    /\ UNCHANGED leaseFrame

\* The renewal that is due is made and fails: the supervisor's fatal path.
LeaseRenewFails ==
    /\ pcMain = "lease" /\ lease.pc = "armed"
    /\ lease' = [lease EXCEPT !.pc = "fatal"]
    /\ UNCHANGED leaseFrame

\* RenewSelf(0) of RenewToken succeeds with a new lease: the renewer is made
\* of the answer and started, and its first renewal is made at once.
LeaseSelfRenewed ==
    /\ pcMain = "lease" /\ lease.pc = "armed" /\ lease.n = 0
    /\ \E l \in Leases :
          lease' = [pc |-> "armed", cur |-> l, sched |-> 0, n |-> 1]
    /\ UNCHANGED leaseFrame

\* A renewal of the renewer succeeds with a new lease l: within the grace
\* period the renewer ends, which is the supervisor's fatal path; otherwise
\* it sleeps a delay computed from l, unless that delay is within the grace
\* period and the renewer ends on that.
LeaseRenewed ==
    /\ pcMain = "lease" /\ lease.pc = "armed"
    /\ lease.n >= 1 /\ lease.n <= MaxRenew
    /\ \E l \in Leases :
          IF l <= Grace
          THEN lease' = [pc |-> "fatal", cur |-> l, sched |-> 0, n |-> lease.n + 1]
          ELSE \E d \in SleepChoices(l) :
                  \/ lease' = [pc |-> "armed", cur |-> l, sched |-> d,
                               n |-> lease.n + 1]
                  \/ /\ d <= Grace
                     /\ lease' = [pc |-> "fatal", cur |-> l, sched |-> 0,
                                  n |-> lease.n + 1]
    /\ UNCHANGED leaseFrame

-----------------------------------------------------------------------------
(* Specifications *)

Next ==
    \/ AppReadConfig
    \/ AppVaultInit
    \/ AppGetSecret
    \/ AppConnect
    \/ MainNotify
    \/ MainServe
    \/ ServeFail
    \/ HandleCreateOrder
    \/ HandleAllOrders
    \/ Signal
    \/ SigClose
    \/ SigExit
    \/ RenewTokenStart
    \/ RenewSecretStart
    \/ \E s \in Supervisors : RenewerStep(s)
    \/ \E s \in Supervisors : SupRenewal(s)
    \/ \E s \in Supervisors : SupDone(s)

Spec == Init /\ [][Next]_vars

NextAuth == ApiInitialize \/ ApiClose

SpecAuth == InitAuth /\ [][NextAuth]_vars

NextGateway ==
    \/ ApiInitialize
    \/ ApiClose
    \/ ApiGetSecret
    \/ ApiEncrypt
    \/ ApiDecrypt

SpecGateway == InitGateway /\ [][NextGateway]_vars

NextLease ==
    \/ LeaseStart
    \/ LeaseRenewFails
    \/ LeaseSelfRenewed
    \/ LeaseRenewed

SpecLease == InitLease /\ [][NextLease]_vars

-----------------------------------------------------------------------------
(* Claims *)

\* The fields the method table requires of a method.
TableRequired(m) ==
    CASE m = "token"      -> {"Token"}
      [] m = "approle"    -> {"RoleID", "SecretID"}
      [] m = "kubernetes" -> {"Mount", "Role", "ServiceAccount"}
      [] m = "aws-iam"    -> {"Mount", "Role"}
      [] m = "aws-ec2"    -> {"Mount", "Role"}
      [] m = "gcp-iam"    -> {"Mount", "Role", "ServiceAccount"}
      [] m = "gcp-gce"    -> {"Mount", "Role"}
      [] m = "azure-msi"  -> {"Mount", "Role", "ServiceAccount"}
      [] OTHER            -> {}

Returned == apiCalls.last = "Initialize" /\ initRes.status # "none"

\* C1: when exactly one field the method table requires of the method is
\* empty, Initialize returns a configuration error and has made no network
\* call. Stated for a Vault whose address parses, a client NewClient could
\* build and an environment without VAULT_TOKEN.
C1_Claim ==
    (/\ Returned
     /\ v.Authentication \in Methods
     /\ v.AddrOk /\ initRes.set /\ envToken = ""
     /\ Cardinality({f \in TableRequired(v.Authentication) : v[f] = ""}) = 1)
    => (initRes.status = "error" /\ initRes.err = "config" /\ initRes.calls = <<>>)

InCalls(c) == \E i \in 1..Len(initRes.calls) : initRes.calls[i] = c

\* C2 as stated: with the static-token method a successful Initialize sent no
\* login request and left the configured token in the client, whatever token
\* the client had from the environment.
C2_Claim ==
    (Returned /\ v.Authentication = "token" /\ v.Token # "" /\ initRes.status = "ok")
    => (~InCalls("login") /\ client.token = v.Token)

\* C2 amended: with the static-token method Initialize never sends a login
\* request, and when it succeeds the token in the client is the one from the
\* environment when there is one, and the configured token only otherwise;
\* it is never empty.
C2_TokenFromEnvFirst ==
    (Returned /\ v.Authentication = "token")
    => /\ ~InCalls("login")
       /\ initRes.status = "ok" =>
             /\ client.token = (IF envToken # "" THEN envToken ELSE v.Token)
             /\ client.token # ""

\* A successful static-token Initialize with both a VAULT_TOKEN and a
\* configured token: the client holds the former, only lookup-self was called.
C2_Witness ==
    /\ Returned /\ v.Authentication = "token" /\ initRes.status = "ok"
    /\ envToken # "" /\ v.Token # "" /\ client.token = envToken
    /\ initRes.calls = <<"lookup">>

\* The successes of the renew endpoint that the renewer of s received: all
\* of them for a secret, all but the first (RenewSelf) for the token.
RenewerSuccesses(s) ==
    IF s = "token" /\ okCount[s] >= 1 THEN okCount[s] - 1 ELSE okCount[s]

\* The loop of s has received the renewer's result.
ResultTaken(s) == renPc[s] = "done" /\ doneCh[s] = "empty"

\* C3 as stated: a supervisor that took its failure path after the endpoint
\* succeeded N times logged exactly N notifications, made one failure report
\* and no renew call after the terminal event.
C3_Claim ==
    \A s \in Supervisors :
        supPc[s] = "fatal" =>
            notified[s] = okCount[s] /\ fatals[s] = 1 /\ lateCalls[s] = 0

\* C3 amended: a supervisor logs at most as many notifications as its
\* renewer had successes (N for a secret, N - 1 for the token when N >= 1,
\* whose first renewal is RenewSelf); once its loop has received the
\* renewer's result it has made exactly one failure report, never more than
\* one, and it makes no renew call after the terminal event.
C3_AtMostN ==
    \A s \in Supervisors :
        /\ notified[s] <= RenewerSuccesses(s)
        /\ fatals[s] <= 1
        /\ lateCalls[s] = 0
        /\ (supPc[s] = "fatal" \/ ResultTaken(s)) => (fatals[s] = 1 /\ ~proc.alive)

\* The token supervisor took its failure path after three successes of the
\* endpoint: RenewSelf and two renewals of the renewer, both notified.
C3_Witness ==
    /\ supPc["token"] = "fatal"
    /\ okCount["token"] = 3 /\ notified["token"] = 2 /\ fatals["token"] = 1

\* Close has been called by the owner of the supervisors.
StopIssued == sigState = "closed"

\* C4: once the owner has issued the stop, no supervisor makes another renew
\* call and none makes a failure report.
C4_Claim ==
    [][StopIssued =>
          \A s \in Supervisors :
              renewCalls'[s] = renewCalls[s] /\ fatals'[s] = fatals[s]]_vars

\* C5: a supervisor never returns from its loop, and once its loop has
\* received the renewer's result (an error or nil), or its first renewal
\* failed, the whole process has ended through the fatal path; for the token
\* and for a leased secret alike.
C5_FailureIsFatal ==
    \A s \in Supervisors :
        /\ supPc[s] # "returned"
        /\ ResultTaken(s) => supPc[s] = "fatal"
        /\ supPc[s] = "fatal" => (~proc.alive /\ proc.exit = "fatal")

\* The supervisor of a renewable leased secret received the renewer's result
\* after at least one renewal and ended the process, the token supervisor
\* still being in its loop.
C5_Witness ==
    /\ supPc["secret"] = "fatal" /\ ResultTaken("secret")
    /\ secret.renewable /\ okCount["secret"] >= 1
    /\ supPc["token"] = "loop"
    /\ proc.exit = "fatal"

Running(s) == supPc[s] \in {"spawned", "loop"}

\* C6: when the revoke has been issued, every supervisor has been stopped.
C6_Claim == server.revokeCalls > 0 => \A s \in Supervisors : ~Running(s)

\* C7: once Shutdown has begun, no supervisor takes its failure path.
C7_Claim == sigState = "closed" => \A s \in Supervisors : supPc[s] # "fatal"

\* C8: when the process has ended after a signal was delivered while a
\* session token existed, the revoke was issued before and the process ended
\* through the shutdown path.
C8_Claim ==
    (sigSeen /\ ~proc.alive) => (server.revokeCalls > 0 /\ proc.exit = "shutdown")

\* C9: a call of Close never panics, whether or not Initialize was called
\* before it.
C9_Claim == apiCalls.last = "Close" => proc.exit # "panic"

\* C10: a supervisor exists only for a credential confirmed renewable: the
\* token after a lookup-self that reported renewable, a secret that was
\* reported renewable.
C10_Claim ==
    \A s \in Supervisors :
        supPc[s] # "none" =>
            IF s = "token" THEN initRes.lookup = "renewable" ELSE secret.renewable

\* C11: at most one supervisor goroutine exists for the session token; stated
\* for the static-token method, where every Initialize leaves the same token
\* in the client.
C11_Claim ==
    (proc.alive /\ v.Authentication = "token") => spawned["token"] <= 1

\* Initialize has put a token in the client: the one of a login, or the one
\* the static-token case selected.
TokenObtained ==
    \/ initRes.login = "ok"
    \/ v.Authentication = "token" /\ v.AddrOk /\ initRes.set /\ client.token # ""

\* C13: once Initialize has a token, by whatever method, it calls lookup-self;
\* when that call fails Initialize returns its error and starts no
\* supervisor.
C13_LookupFailureReturned ==
    Returned =>
        /\ TokenObtained => (initRes.lookup # "none" /\ InCalls("lookup"))
        /\ initRes.lookup = "err" =>
              /\ initRes.status = "error" /\ initRes.err = "lookup"
              /\ ~initRes.spawn
              /\ apiCalls.init = 1 => (spawned["token"] = 0 /\ supPc["token"] = "none")

\* A login gave a token, lookup-self failed, Initialize returned the error.
C13_Witness ==
    /\ Returned /\ initRes.login = "ok" /\ initRes.lookup = "err"
    /\ initRes.status = "error" /\ supPc["token"] = "none"
    /\ initRes.calls[Len(initRes.calls)] = "lookup"

\* C14: a failure while the identity proof is built makes Initialize return
\* an error with no login request sent and no token installed. Stated for a
\* non-2xx answer of a metadata or identity endpoint.
C14_Claim ==
    (Returned /\ initRes.prov = "non2xx")
    => (initRes.status = "error" /\ ~InCalls("login") /\ client.token = envToken)

\* C12: in the hosting process no gateway operation (GetSecret, Encrypt,
\* Decrypt, revoke) and no supervisor runs before Initialize has completed
\* with a session token: each was issued against a set client holding a
\* non-empty token, after the foreground sequence had passed vault.Init().
C12_TokenBeforeGateway ==
    /\ gw.op # "none" =>
          /\ gw.set /\ gw.token # ""
          /\ initRes.status = "ok"
          /\ pcMain \notin {"start", "vaultInit"}
    /\ \A s \in Supervisors :
          (supPc[s] # "none" \/ renewCalls[s] > 0) =>
              (client.set /\ client.token # "" /\ initRes.status = "ok")

\* A handler decrypted with the session token while both supervisors ran.
C12_Witness ==
    /\ gw.op = "Decrypt" /\ gw.status = "handled" /\ gw.token # "" /\ gw.set
    /\ supPc["secret"] = "loop" /\ renewCalls["token"] > 0

\* C15: after a successful Initialize, Encrypt and Decrypt return an error and
\* an empty result, and do not crash, when the answer has no body, lacks the expected field, carries it
\* with another type, or the transport fails.
C15_Claim ==
    (gw.op \in {"Encrypt", "Decrypt"} /\ gw.set /\ initRes.status = "ok"
        /\ gw.mode \in {"nil", "nofield", "nonstring", "transport"})
    => (gw.status = "error" /\ gw.out = "")

\* C16: Decrypt, given what Encrypt returned for the plaintext P at a path,
\* called with the same path and answered by the transform, returns P and no
\* error.
C16_RoundTrip ==
    (gw.op = "Decrypt" /\ gw.chained /\ gw.srcPath = gw.path /\ gw.mode = "healthy")
    => (gw.status = "ok" /\ gw.out = gw.srcPlain)

C16_Witness ==
    /\ gw.op = "Decrypt" /\ gw.chained /\ gw.mode = "healthy"
    /\ gw.path = "transit/k2" /\ gw.srcPath = "transit/k2"
    /\ gw.input = Cipher("transit/k2", "b3JkZXI=")
    /\ gw.status = "ok" /\ gw.out = "b3JkZXI="

\* C19: GetSecret after a successful Initialize does not crash whatever Read
\* answers: an
\* error is returned with an empty record, a secret is returned with no error.
C19_Claim ==
    (gw.op = "GetSecret" /\ gw.set /\ initRes.status = "ok") =>
        /\ gw.status # "panic"
        /\ gw.mode = "err" => (gw.status = "error" /\ secret = NoSecret)
        /\ gw.mode \in {"leased", "static", "nocreds"} =>
              (gw.status = "ok" /\ secret.got /\ secret.renewable = (gw.mode = "leased"))

\* C17: a supervisor that has taken its terminal path has attempted at least
\* one renewal of its credential, the token's and the secret's alike.
C17_Claim ==
    \A s \in Supervisors : fatals[s] > 0 => renewCalls[s] >= 1

\* C18: in the hosting process the client's token changes in one step only,
\* vault.Init() of init, which writes it into the client that had none;
\* GetSecret, the handlers' Encrypt and Decrypt, Close, RenewToken,
\* RenewSecret and every renewal leave it as it is.
C18_SingleWriter ==
    [][client'.token # client.token =>
          (pcMain = "vaultInit" /\ ~client.set /\ client.token = "")]_vars

\* Both supervisors have had renewals succeed, a handler has encrypted, and
\* the client holds the token Initialize installed.
C18_Witness ==
    /\ okCount["token"] >= 2 /\ okCount["secret"] >= 1
    /\ gw.op = "Encrypt" /\ gw.status = "handled"
    /\ client.token # "" /\ client.token = initRes.token /\ gw.token = client.token

C21_Claim ==
    (Returned /\ apiCalls.init = 1 /\ envToken = "" /\ initRes.status = "error")
    => (client.token = "" /\ spawned["token"] = 0 /\ supPc["token"] = "none")

\* C22: a login exchange that ends without a transport error but with an
\* empty response, or with a response that has no auth block, makes
\* Initialize return an error: it does not crash and installs no empty token.
C22_Claim ==
    (Returned /\ initRes.login \in {"nil", "noauth"})
    => (initRes.status = "error" /\ proc.alive)

\* C23: for a method name outside the supported set Initialize returns the
\* unsupported-method error and has sent no request, set no token and started
\* no supervisor. Stated for a Vault whose address parses and an environment
\* without VAULT_TOKEN.
C23_Claim ==
    (Returned /\ v.Authentication \notin Methods /\ v.AddrOk /\ envToken = "")
    => /\ initRes.status = "error" /\ initRes.err = "unsupported"
       /\ initRes.calls = <<>>
       /\ client.token = ""
       /\ spawned["token"] = 0

====
